---- MODULE Spec2Model ----
(***************************************************************************)
(* Hook/dispatch layer of esp-mbedtls-sys: the four hook slots (EXP_MOD,   *)
(* TIME, MS_TIME, GMTIME_R), the registration functions, the C-ABI         *)
(* trampolines, the software fallback for modular exponentiation and the   *)
(* ESP time backend with its guard.                                        *)
(*                                                                         *)
(* Every execution context (normal code, an interrupt handler, the other   *)
(* core) runs one operation at a time; ctx[c] is its frame.  A step of the *)
(* model is one access to shared memory or one call of an MPI primitive.   *)
(* A slot holds an Option<&dyn Trait>: a fat pointer of two machine words  *)
(* (data, vtable) that Cell::set and Cell::get copy word by word; only the *)
(* critical section makes the copy atomic.                                 *)
(***************************************************************************)
EXTENDS Integers, Sequences, FiniteSets, TLC

\* ------------------------------------------------------------------ bounds
MaxX == 4
MaxY == 12
MaxM == 6
MaxGuards == 2
MaxTime == 2
MaxCalDay == 800

\* --------------------------------------------------------------- constants
\* Status codes of the MPI primitives (the bundled library's error space).
MBEDTLS_ERR_MPI_ALLOC_FAILED == -16
MBEDTLS_ERR_MPI_DIVISION_BY_ZERO == -12

Contexts == {"main", "isr"}
Kinds == {"EXP_MOD", "TIME", "MS_TIME", "GMTIME_R"}
TimeKinds == {"TIME", "MS_TIME", "GMTIME_R"}
NULL == "NULL"

\* The caller's MPI objects and the shapes of the pointer arguments the
\* external library passes: z may be the same object as x, y or m, and a
\* required pointer may be null.
Obj == {"Z", "X", "Y", "M", "RR"}

\* ------------------------------------------------------------ slot values
\* Option<&dyn Trait>: None is the null data word.
None == [data |-> "null", vtable |-> "null"]
Some(k) == [data |-> k, vtable |-> k]
IsSome(v) == v.data # "null"
\* A fat pointer whose two words come from two different values.
Torn(v) == v.data # v.vtable /\ v.data # "null"

ExpCaps == {"capA", "capB"}
TimeCaps == {"ESP_TIME", "capT"}
CapsOf(k) == IF k = "EXP_MOD" THEN ExpCaps ELSE TimeCaps
SlotArgs(k) == {None} \cup {Some(cap) : cap \in CapsOf(k)}

\* ----------------------------------------------------------- Result values
Ok == [ok |-> TRUE, code |-> 0]
\* MbedtlsError::new(code), and Err of it
MbedtlsError_new(code) == [ok |-> FALSE, code |-> code]
\* MbedtlsError::code
code(e) == e.code

\* ------------------------------------------------------------------ state
VARIABLES
    slots,   \* [Kinds -> fat pointer]: alt::EXP_MOD, alt::TIME, alt::MS_TIME, alt::GMTIME_R
    rtc,     \* ESP_TIME.rtc: "none" or "rtc"
    cs,      \* the owner of the critical section, or "none"
    guards,  \* the number of live EspTimeGuard values
    last,    \* [Kinds -> argument of the last completed hook_* call] (history)
    ctx      \* [Contexts -> frame]

vars == <<slots, rtc, cs, guards, last, ctx>>

NoArgs == [z |-> NULL, x |-> NULL, y |-> NULL, m |-> NULL, prec_rr |-> NULL,
           timer |-> NULL, tt |-> NULL, tm_buf |-> NULL]
\* The memory a call works on: the caller's objects, and what lies at the
\* null address when an access to it does not trap.
ZeroMem == [o \in Obj \cup {NULL} |-> 0]

\* The fields of MbedtlsTm, and the content of the caller's record before a call.
TmFields == {"tm_sec", "tm_min", "tm_hour", "tm_mday", "tm_mon", "tm_year",
             "tm_wday", "tm_yday", "tm_isdst"}
CallerTm == [f \in TmFields |-> 99]

IdleFrame ==
    [pc |-> "idle", op |-> "none",
     \* hook_* / register / drop
     kind |-> "none", val |-> None, store |-> None, todo |-> <<>>, prev |-> None,
     \* trampolines
     got |-> None, args |-> NoArgs, ret |-> 0, retp |-> NULL,
     \* the caller's MPI objects and the fallback's locals
     mem |-> ZeroMem, base |-> 0, baseState |-> "uninit", result |-> 0,
     bits |-> 0, i |-> 0, res |-> Ok,
     \* time
     tt |-> [days |-> 0, secs |-> 0], now |-> 0, timerv |-> 0, tm |-> "unset", noRtc |-> FALSE,
     tmv |-> CallerTm,
     \* history of the call
     in |-> <<0, 0, 0>>, invCap |-> 0, invFb |-> 0, capRes |-> Ok,
     nInit |-> 0, nFree |-> 0, nMul |-> 0, nMod |-> 0, iters |-> 0,
     failCode |-> 0, postFail |-> 0, derefNull |-> FALSE]

Init ==
    /\ slots = [k \in Kinds |-> None]
    /\ rtc = "none"
    /\ cs = "none"
    /\ guards = 0
    /\ last = [k \in Kinds |-> None]
    /\ ctx = [c \in Contexts |-> IdleFrame]

\* ------------------------------------------------------- critical section
\* Mutant: the closure runs without mutual exclusion.
CanEnter_always(c) == TRUE

\* critical_section::with: the closure runs only when no other context is
\* inside a critical section.
CanEnter(c) == cs = "none"

Set(c, r) == ctx' = [ctx EXCEPT ![c] = r]

\* The call of context c has returned and its caller goes on.
return(c) ==
    /\ ctx[c].pc = "done"
    /\ Set(c, IdleFrame)
    /\ UNCHANGED <<slots, rtc, cs, guards, last>>

\* ---------------------------------------------- MPI primitives (external)
\* The bundled library's arbitrary-precision operations, by their contracts:
\* each returns a status, zero meaning success, and may fail for want of
\* memory; reduce fails on a zero modulus.
RECURSIVE mbedtls_mpi_bitlen(_)
mbedtls_mpi_bitlen(v) == IF v = 0 THEN 0 ELSE 1 + mbedtls_mpi_bitlen(v \div 2)

RECURSIVE Pow2(_)
Pow2(n) == IF n = 0 THEN 1 ELSE 2 * Pow2(n - 1)

mbedtls_mpi_get_bit(v, pos) == (v \div Pow2(pos)) % 2

\* The statuses an allocating primitive can return.
MpiStatus == {0, MBEDTLS_ERR_MPI_ALLOC_FAILED}
\* mbedtls_mpi_mod_mpi(r, a, b): the statuses for modulus b.
ModStatus(b) == IF b = 0 THEN {MBEDTLS_ERR_MPI_DIVISION_BY_ZERO} ELSE MpiStatus

\* The value an MPI pointer refers to in frame r.
Val(r, p) == r.mem[p]
\* r with the object behind pointer p set to v.
Store(r, p, v) == [r EXCEPT !.mem[p] = v]

\* History: a primitive returned status st (the first failure is kept).
Noted(r, st) == IF st # 0 /\ r.failCode = 0 THEN [r EXCEPT !.failCode = st] ELSE r

\* --------------------------------------------- the exponentiation fallback
\* Mutant: every error is reported as the generic failure -1.
map_or_else_generic(res) == IF res.ok THEN 0 ELSE -1

\* result.map_or_else(|e| e.code(), |_| 0)
map_or_else(res) == IF res.ok THEN 0 ELSE code(res)

\* The trampoline returns `res` to the external library.
TrampolineReturn(r, res) ==
    [r EXCEPT !.res = res, !.ret = map_or_else(res), !.pc = "done"]

\* mbedtls_mpi_init(&mut base)
BaseInit(r) == [r EXCEPT !.baseState = "live", !.nInit = @ + 1, !.base = 0]
\* mbedtls_mpi_free(&mut base)
BaseFree(r) == [r EXCEPT !.baseState = "freed", !.nFree = @ + 1]

\* Mutant: an error return that forgets to release base.
FailExit_leak(r, st) == TrampolineReturn([r EXCEPT !.result = st], MbedtlsError_new(st))

\* `mbedtls_mpi_free(&mut base); return Err(MbedtlsError::new(result));`
FailExit(r, st) == TrampolineReturn(BaseFree([r EXCEPT !.result = st]), MbedtlsError_new(st))

\* `return Err(MbedtlsError::new(result));` of the first step, before base exists
FailExitNoBase(r, st) == TrampolineReturn([r EXCEPT !.result = st], MbedtlsError_new(st))

\* `mbedtls_mpi_free(&mut base); Ok(())`
OkExit(r) == TrampolineReturn(BaseFree(r), Ok)

\* The head of `for i in (0..bits).rev()`: the next index, or the exit.
LoopNext(r, n) == IF n < 0 THEN OkExit(r) ELSE [r EXCEPT !.i = n, !.iters = @ + 1, !.pc = "fb_sq_mul"]

\* History: a multiply or reduce ran (counted apart once a primitive failed).
Mul(r) == [r EXCEPT !.nMul = @ + 1, !.postFail = IF r.failCode # 0 THEN @ + 1 ELSE @]
Mod(r) == [r EXCEPT !.nMod = @ + 1, !.postFail = IF r.failCode # 0 THEN @ + 1 ELSE @]

\* let mut result = mbedtls_mpi_lset(z, 1);
fb_lset(r, st) ==
    LET r1 == Noted(IF st = 0 THEN Store(r, r.args.z, 1) ELSE r, st)
    IN  IF st # 0 THEN FailExitNoBase(r1, st)
        ELSE [r1 EXCEPT !.result = st, !.pc = "fb_copy"]

\* mbedtls_mpi_init(&mut base); result = mbedtls_mpi_copy(&mut base, x);
fb_copy(r, st) ==
    LET r0 == BaseInit(r)
        r1 == Noted(IF st = 0 THEN [r0 EXCEPT !.base = Val(r, r.args.x)] ELSE r0, st)
    IN  IF st # 0 THEN FailExit(r1, st)
        ELSE [r1 EXCEPT !.result = st, !.pc = "fb_bitlen"]

\* let bits = mbedtls_mpi_bitlen(y);  and the loop's first test
fb_bitlen(r) ==
    LET n == mbedtls_mpi_bitlen(Val(r, r.args.y))
    IN  LoopNext([r EXCEPT !.bits = n], n - 1)

\* result = mbedtls_mpi_mul_mpi(z, z, z);
fb_sq_mul(r, st) ==
    LET z  == Val(r, r.args.z)
        r1 == Noted(Mul(IF st = 0 THEN Store(r, r.args.z, z * z) ELSE r), st)
    IN  IF st # 0 THEN FailExit(r1, st)
        ELSE [r1 EXCEPT !.result = st, !.pc = "fb_sq_mod"]

\* Mutant: the bits of y are tested from the least significant one.
fb_sq_mod_lsb_first(r, st) ==
    LET z  == Val(r, r.args.z)
        m  == Val(r, r.args.m)
        r1 == Noted(Mod(IF st = 0 THEN Store(r, r.args.z, z % m) ELSE r), st)
    IN  IF st # 0 THEN FailExit(r1, st)
        ELSE IF mbedtls_mpi_get_bit(Val(r1, r.args.y), r.bits - 1 - r.i) = 1
             THEN [r1 EXCEPT !.result = st, !.pc = "fb_mul"]
             ELSE LoopNext([r1 EXCEPT !.result = st], r.i - 1)

\* result = mbedtls_mpi_mod_mpi(z, z, m);  then  mbedtls_mpi_get_bit(y, i) == 1
fb_sq_mod(r, st) ==
    LET z  == Val(r, r.args.z)
        m  == Val(r, r.args.m)
        r1 == Noted(Mod(IF st = 0 THEN Store(r, r.args.z, z % m) ELSE r), st)
    IN  IF st # 0 THEN FailExit(r1, st)
        ELSE IF mbedtls_mpi_get_bit(Val(r1, r.args.y), r.i) = 1
             THEN [r1 EXCEPT !.result = st, !.pc = "fb_mul"]
             ELSE LoopNext([r1 EXCEPT !.result = st], r.i - 1)

\* Mutant: the multiply step squares z again instead of multiplying by base.
fb_mul_square(r, st) ==
    LET z  == Val(r, r.args.z)
        r1 == Noted(Mul(IF st = 0 THEN Store(r, r.args.z, z * z) ELSE r), st)
    IN  IF st # 0 THEN FailExit(r1, st)
        ELSE [r1 EXCEPT !.result = st, !.pc = "fb_mod"]

\* result = mbedtls_mpi_mul_mpi(z, z, &base);
fb_mul(r, st) ==
    LET z  == Val(r, r.args.z)
        r1 == Noted(Mul(IF st = 0 THEN Store(r, r.args.z, z * r.base) ELSE r), st)
    IN  IF st # 0 THEN FailExit(r1, st)
        ELSE [r1 EXCEPT !.result = st, !.pc = "fb_mod"]

\* Mutant: the reduce stores its result in m.
fb_mod_into_m(r, st) ==
    LET z  == Val(r, r.args.z)
        m  == Val(r, r.args.m)
        r1 == Noted(Mod(IF st = 0 THEN Store(r, r.args.m, z % m) ELSE r), st)
    IN  IF st # 0 THEN FailExit(r1, st)
        ELSE LoopNext([r1 EXCEPT !.result = st], r.i - 1)

\* result = mbedtls_mpi_mod_mpi(z, z, m);  and the loop's next test
fb_mod(r, st) ==
    LET z  == Val(r, r.args.z)
        m  == Val(r, r.args.m)
        r1 == Noted(Mod(IF st = 0 THEN Store(r, r.args.z, z % m) ELSE r), st)
    IN  IF st # 0 THEN FailExit(r1, st)
        ELSE LoopNext([r1 EXCEPT !.result = st], r.i - 1)

\* -------------------------------------------------------- registration API
\* The frame of context c at the start of a call.
Fresh(op) == [IdleFrame EXCEPT !.op = op]

\* Mutant: an occupied slot keeps its occupant.
Cell_set_keep(old, v) == IF IsSome(old) THEN old ELSE v

\* Cell::set(v) on a cell holding old: the words the cell holds afterwards.
Cell_set(old, v) == v

\* critical_section::with(|cs| SLOT.borrow(cs).set(v)), first word: the
\* section is entered and the data word stored.
CellSet1(c, k, v, op, todo) ==
    /\ CanEnter(c)
    /\ cs' = c
    /\ slots' = [slots EXCEPT ![k].data = Cell_set(slots[k], v).data]
    /\ Set(c, [ctx[c] EXCEPT !.pc = "hook_w2", !.op = op, !.kind = k, !.val = v,
                              !.store = Cell_set(slots[k], v), !.todo = todo])
    /\ UNCHANGED <<rtc, guards, last>>

\* pub unsafe fn hook_exp_mod(exp_mod: Option<&'static dyn MbedtlsMpiExpMod>)
hook_exp_mod(c, v) ==
    /\ ctx[c].pc = "idle"
    /\ CellSet1(c, "EXP_MOD", v, "hook", <<>>)

\* pub unsafe fn hook_time(time: Option<&'static dyn MbedtlsTime>)
hook_time(c, v) ==
    /\ ctx[c].pc = "idle"
    /\ CellSet1(c, "TIME", v, "hook", <<>>)

\* pub unsafe fn hook_ms_time(ms_time: Option<&'static dyn MbedtlsMsTime>)
hook_ms_time(c, v) ==
    /\ ctx[c].pc = "idle"
    /\ CellSet1(c, "MS_TIME", v, "hook", <<>>)

\* pub unsafe fn hook_gmtime_r(gmtime_r: Option<&'static dyn MbedtlsGmtimeR>)
hook_gmtime_r(c, v) ==
    /\ ctx[c].pc = "idle"
    /\ CellSet1(c, "GMTIME_R", v, "hook", <<>>)

\* The next hook_* call of register or drop enters its critical section.
HookNext(c) ==
    /\ ctx[c].pc = "hook_w1"
    /\ CellSet1(c, ctx[c].kind, ctx[c].val, ctx[c].op, ctx[c].todo)

\* What follows the hook_* call that just returned, in the frame r of its caller
\* (history: a direct call keeps the argument of the call completed before it).
AfterHook(r) ==
    IF r.op = "hook" THEN [r EXCEPT !.pc = "done", !.prev = last[r.kind]]
    ELSE IF r.todo # <<>>
    THEN [r EXCEPT !.pc = "hook_w1", !.kind = Head(r.todo), !.todo = Tail(r.todo)]
    ELSE IF r.op = "drop" THEN [r EXCEPT !.pc = "drop_rtc"]
    ELSE [r EXCEPT !.pc = "done"]

\* The guards alive once a call with frame r has returned.
GuardsAfter(r, g) == IF r.op = "register" /\ r.todo = <<>> THEN g + 1 ELSE g

\* Second word of Cell::set, and the end of the critical section.
CellSet2(c) ==
    LET r == ctx[c] IN
    /\ r.pc = "hook_w2"
    /\ slots' = [slots EXCEPT ![r.kind].vtable = r.store.vtable]
    /\ cs' = "none"
    /\ last' = [last EXCEPT ![r.kind] = r.val]
    /\ guards' = GuardsAfter(r, guards)
    /\ Set(c, AfterHook(r))
    /\ UNCHANGED rtc

\* Guards that exist or are about to be returned by a running register.
GuardsIssued == guards + Cardinality({c \in Contexts : ctx[c].op = "register" /\ ctx[c].pc # "done"})

\* pub fn register(rtc) -> EspTimeGuard: the RTC reference is stored in its
\* own critical section, then the three hooks are installed.
register(c) ==
    /\ ctx[c].pc = "idle"
    /\ GuardsIssued < MaxGuards
    /\ CanEnter(c)
    /\ rtc' = "rtc"
    /\ Set(c, [Fresh("register") EXCEPT !.pc = "hook_w1", !.kind = "TIME",
                   !.val = Some("ESP_TIME"), !.todo = <<"MS_TIME", "GMTIME_R">>])
    /\ UNCHANGED <<slots, cs, guards, last>>

\* impl Drop for EspTimeGuard: hook_time(None) is entered.
drop(c) ==
    /\ ctx[c].pc = "idle"
    /\ guards > 0
    /\ CanEnter(c)
    /\ cs' = c
    /\ slots' = [slots EXCEPT !["TIME"].data = Cell_set(slots["TIME"], None).data]
    /\ guards' = guards - 1
    /\ Set(c, [Fresh("drop") EXCEPT !.pc = "hook_w2", !.kind = "TIME", !.val = None,
                   !.store = Cell_set(slots["TIME"], None),
                   !.todo = <<"MS_TIME", "GMTIME_R">>, !.prev = slots["TIME"]])
    /\ UNCHANGED <<rtc, last>>

\* Mutant: the drop leaves the RTC reference in place.
drop_rtc_keep(c) ==
    /\ ctx[c].pc = "drop_rtc"
    /\ CanEnter(c)
    /\ Set(c, [ctx[c] EXCEPT !.pc = "done"])
    /\ UNCHANGED <<slots, rtc, cs, guards, last>>

\* drop: critical_section::with(|cs| ESP_TIME.rtc.borrow(cs).set(None))
drop_rtc(c) ==
    /\ ctx[c].pc = "drop_rtc"
    /\ CanEnter(c)
    /\ rtc' = "none"
    /\ Set(c, [ctx[c] EXCEPT !.pc = "done"])
    /\ UNCHANGED <<slots, cs, guards, last>>

\* ------------------------------------------------------------- trampolines
\* Mutant: the trampoline takes the occupant out of the cell (Cell::take).
CellGet1_take(c, k, r) ==
    /\ CanEnter(c)
    /\ cs' = c
    /\ slots' = [slots EXCEPT ![k] = None]
    /\ Set(c, [r EXCEPT !.pc = "read2", !.kind = k,
                        !.got = [data |-> slots[k].data, vtable |-> "unread"]])
    /\ UNCHANGED <<rtc, guards, last>>

\* critical_section::with(|cs| SLOT.borrow(cs).get()), first word: the
\* section is entered and the data word loaded into frame r.
CellGet1(c, k, r) ==
    /\ CanEnter(c)
    /\ cs' = c
    /\ Set(c, [r EXCEPT !.pc = "read2", !.kind = k,
                        !.got = [data |-> slots[k].data, vtable |-> "unread"]])
    /\ UNCHANGED <<slots, rtc, guards, last>>

\* Mutant: the section is held until the trampoline returns.
AfterGet_held(c) == c

\* The owner of the critical section once the closure `|cs| SLOT.borrow(cs).get()`
\* of context c has returned.
AfterGet(c) == "none"

\* Mutant: the capability is called and the fallback runs after it.
exp_mod_dispatch_both(r) ==
    IF IsSome(r.got) THEN [r EXCEPT !.pc = "fb_lset", !.invCap = @ + 1, !.invFb = @ + 1]
    ELSE [r EXCEPT !.pc = "fb_lset", !.invFb = @ + 1]

\* if let Some(exp_mod) = ... { exp_mod.exp_mod(..) } else { EXP_MOD_FALLBACK.exp_mod(..) }
exp_mod_dispatch(r) ==
    IF IsSome(r.got) THEN [r EXCEPT !.pc = "cap_run", !.invCap = @ + 1]
    ELSE [r EXCEPT !.pc = "fb_lset", !.invFb = @ + 1]

\* Mutant: the value is stored through timer but 0 is returned.
time_return_zero(r, t) ==
    [r EXCEPT !.now = t, !.ret = 0, !.pc = "done",
              !.timerv = IF r.args.timer # NULL THEN t ELSE @]

\* time(): `if !timer.is_null() { *timer = current_time; } current_time`
time_return(r, t) ==
    [r EXCEPT !.now = t, !.ret = t, !.pc = "done",
              !.timerv = IF r.args.timer # NULL THEN t ELSE @]

\* if let Some(time_fn) = ... { time_fn.time() } else { 0 }
time_dispatch(r) ==
    IF IsSome(r.got) THEN [r EXCEPT !.pc = "cap_run", !.invCap = @ + 1]
    ELSE time_return(r, 0)

\* if let Some(ms_time) = ... { ms_time.ms_time() } else { 0 }
ms_time_dispatch(r) ==
    IF IsSome(r.got) THEN [r EXCEPT !.pc = "cap_run", !.invCap = @ + 1]
    ELSE [r EXCEPT !.now = 0, !.ret = 0, !.pc = "done"]

\* Mutant: tm_buf is returned whatever the result.
gmtime_r_return_buf(r, ok) ==
    [r EXCEPT !.res = IF ok THEN Ok ELSE [ok |-> FALSE, code |-> 0],
              !.retp = r.args.tm_buf, !.pc = "done"]

\* match result { Ok(()) => tm_buf, Err(()) => ptr::null_mut() }
gmtime_r_return(r, ok) ==
    [r EXCEPT !.res = IF ok THEN Ok ELSE [ok |-> FALSE, code |-> 0],
              !.retp = IF ok THEN r.args.tm_buf ELSE NULL, !.pc = "done"]

\* if let Some(gmtime_r) = ... { gmtime_r.gmtime_r(time, tm_buf_ref) } else { Err(()) }
gmtime_r_dispatch(r) ==
    IF IsSome(r.got) THEN [r EXCEPT !.pc = "cap_run", !.invCap = @ + 1]
    ELSE gmtime_r_return(r, FALSE)

\* Second word of Cell::get, the end of the critical section, and the branch
\* on the value read.
CellGet2(c) ==
    LET r == [ctx[c] EXCEPT !.got.vtable = slots[ctx[c].kind].vtable] IN
    /\ ctx[c].pc = "read2"
    /\ cs' = AfterGet(c)
    /\ Set(c, CASE r.op = "exp_mod"  -> exp_mod_dispatch(r)
                [] r.op = "time"     -> time_dispatch(r)
                [] r.op = "ms_time"  -> ms_time_dispatch(r)
                [] r.op = "gmtime_r" -> gmtime_r_dispatch(r))
    /\ UNCHANGED <<slots, rtc, guards, last>>

\* unsafe extern "C" fn mbedtls_mpi_exp_mod(z, x, y, m, prec_rr) -> c_int,
\* called with the objects X = inp[1], Y = inp[2], M = inp[3] and the
\* pointers a: the slot is read at once.
mbedtls_mpi_exp_mod(c, inp, a) ==
    /\ ctx[c].pc = "idle"
    /\ CellGet1(c, "EXP_MOD",
                [Fresh("exp_mod") EXCEPT !.args = a, !.in = inp,
                    !.mem = [ZeroMem EXCEPT !["X"] = inp[1], !["Y"] = inp[2], !["M"] = inp[3]]])

\* unsafe extern "C" fn time(timer: *mut i64) -> i64
time(c, timer) ==
    /\ ctx[c].pc = "idle"
    /\ CellGet1(c, "TIME", [Fresh("time") EXCEPT !.args.timer = timer])

\* unsafe extern "C" fn mbedtls_ms_time() -> i64
mbedtls_ms_time(c) ==
    /\ ctx[c].pc = "idle"
    /\ CellGet1(c, "MS_TIME", Fresh("ms_time"))

\* unsafe extern "C" fn mbedtls_platform_gmtime_r(tt, tm_buf) -> *mut MbedtlsTm:
\* `if tt.is_null() || tm_buf.is_null() { return ptr::null_mut(); }`, else
\* `let time = *tt;` and the slot is read.
mbedtls_platform_gmtime_r(c, tt, tm_buf, t) ==
    LET r == [Fresh("gmtime_r") EXCEPT !.args.tt = tt, !.args.tm_buf = tm_buf] IN
    /\ ctx[c].pc = "idle"
    /\ IF tt = NULL \/ tm_buf = NULL
       THEN /\ Set(c, [r EXCEPT !.retp = NULL, !.pc = "done"])
            /\ UNCHANGED <<slots, rtc, cs, guards, last>>
       ELSE CellGet1(c, "GMTIME_R", [r EXCEPT !.tt = t])

\* ------------------------------------------------------------ capabilities
\* What an installed exponentiation capability may return.
CapResults == {Ok, MbedtlsError_new(MBEDTLS_ERR_MPI_ALLOC_FAILED),
               MbedtlsError_new(MBEDTLS_ERR_MPI_DIVISION_BY_ZERO)}

\* exp_mod.exp_mod(&mut *z, &*x, &*y, &*m, prec_rr.as_mut()) returns
exp_mod_cap(c) ==
    LET r == ctx[c] IN
    /\ r.pc = "cap_run" /\ r.op = "exp_mod"
    /\ \E res \in CapResults : Set(c, TrampolineReturn([r EXCEPT !.capRes = res], res))
    /\ UNCHANGED <<slots, rtc, cs, guards, last>>

\* The readings of the clock: rtc.current_time_us() scaled, or a mock's value.
Clock == 0 .. MaxTime

\* EspTimeBackend::with_rtc(f).unwrap_or(0) called with frame r: the RTC
\* reference is read in a critical section of its own; the outcomes are the
\* frame and the value returned.
with_rtc(c, r) ==
    IF ~CanEnter(c) THEN {}
    ELSE IF rtc = "rtc" THEN {<<r, t>> : t \in Clock}
    ELSE {<<[r EXCEPT !.noRtc = TRUE], 0>>}

\* The implementation a fat pointer dispatches to is the one of its vtable word.
IsEsp(v) == v.vtable = "ESP_TIME"

\* time_fn.time() returns: <EspTimeBackend as MbedtlsTime>::time or a mock
time_cap(c) ==
    LET r == ctx[c] IN
    /\ r.pc = "cap_run" /\ r.op = "time"
    /\ IF IsEsp(r.got) THEN \E o \in with_rtc(c, r) : Set(c, time_return(o[1], o[2]))
       ELSE \E t \in Clock : Set(c, time_return(r, t))
    /\ UNCHANGED <<slots, rtc, cs, guards, last>>

ms_time_return(r, t) == [r EXCEPT !.now = t, !.ret = t, !.pc = "done"]

\* ms_time.ms_time() returns: <EspTimeBackend as MbedtlsMsTime>::ms_time or a mock
ms_time_cap(c) ==
    LET r == ctx[c] IN
    /\ r.pc = "cap_run" /\ r.op = "ms_time"
    /\ IF IsEsp(r.got) THEN \E o \in with_rtc(c, r) : Set(c, ms_time_return(o[1], o[2]))
       ELSE \E t \in Clock : Set(c, ms_time_return(r, t))
    /\ UNCHANGED <<slots, rtc, cs, guards, last>>

\* A Unix timestamp (an i64) is held as whole days since the epoch and the
\* second of the day.  The last day OffsetDateTime::from_unix_timestamp
\* accepts is 9999-12-31 and the first is -9999-01-01.
MaxDay == 2932896
MinDay == -4371587
Stamp(d, s) == [days |-> d, secs |-> s]
Timestamps == {Stamp(0, 0), Stamp(MaxDay + 1, 0)}

\* The time crate (external), by its contract: the proleptic Gregorian
\* calendar date of day number d counted from 1970-01-01.
is_leap_year(y) == y % 4 = 0 /\ (y % 100 # 0 \/ y % 400 = 0)

Date_from_days(d) ==
    LET z   == d + 719468
        era == z \div 146097
        doe == z - era * 146097
        yoe == (doe - doe \div 1460 + doe \div 36524 - doe \div 146096) \div 365
        doy == doe - (365 * yoe + yoe \div 4 - yoe \div 100)
        mp  == (5 * doy + 2) \div 153
        m   == IF mp < 10 THEN mp + 3 ELSE mp - 9
        y   == yoe + era * 400 + (IF m <= 2 THEN 1 ELSE 0)
    IN  [year |-> y, month |-> m, day |-> doy - (153 * mp + 2) \div 5 + 1]

\* Date::ordinal: the day of the year, from 1.
DaysBeforeMonth == <<0, 31, 59, 90, 120, 151, 181, 212, 243, 273, 304, 334>>
ordinal(date) ==
    DaysBeforeMonth[date.month] + date.day
        + (IF date.month > 2 /\ is_leap_year(date.year) THEN 1 ELSE 0)

\* Weekday::number_days_from_sunday of day number d (1970-01-01 was a Thursday).
number_days_from_sunday(d) == (d + 4) % 7

\* OffsetDateTime::from_unix_timestamp(time) is Ok.
from_unix_timestamp_ok(tt) == tt.days >= MinDay /\ tt.days <= MaxDay

\* Mutant: the month is stored as the calendar counts it, from 1.
fill_tm_month_from_one(tt) ==
    LET date == Date_from_days(tt.days) IN
    [tm_sec |-> tt.secs % 60, tm_min |-> (tt.secs \div 60) % 60, tm_hour |-> tt.secs \div 3600,
     tm_mday |-> date.day, tm_mon |-> date.month, tm_year |-> date.year - 1900,
     tm_wday |-> number_days_from_sunday(tt.days), tm_yday |-> ordinal(date) - 1,
     tm_isdst |-> -1]

\* gmtime_r: the nine assignments to tm_buf, from dt.date() and dt.time().
fill_tm(tt) ==
    LET date == Date_from_days(tt.days) IN
    [tm_sec |-> tt.secs % 60, tm_min |-> (tt.secs \div 60) % 60, tm_hour |-> tt.secs \div 3600,
     tm_mday |-> date.day, tm_mon |-> date.month - 1, tm_year |-> date.year - 1900,
     tm_wday |-> number_days_from_sunday(tt.days), tm_yday |-> ordinal(date) - 1,
     tm_isdst |-> -1]

\* <EspTimeBackend as MbedtlsGmtimeR>::gmtime_r: Err before any field is
\* written when the timestamp is out of range.
EspTimeBackend_gmtime_r(r) ==
    IF ~from_unix_timestamp_ok(r.tt)
    THEN gmtime_r_return(r, FALSE)
    ELSE gmtime_r_return([r EXCEPT !.tm = "filled", !.tmv = fill_tm(r.tt)], TRUE)

\* gmtime_r.gmtime_r(time, tm_buf_ref) returns
gmtime_r_cap(c) ==
    LET r == ctx[c] IN
    /\ r.pc = "cap_run" /\ r.op = "gmtime_r"
    /\ IF IsEsp(r.got) THEN Set(c, EspTimeBackend_gmtime_r(r))
       ELSE \/ Set(c, gmtime_r_return([r EXCEPT !.tm = "filled"], TRUE))
            \/ Set(c, gmtime_r_return(r, FALSE))
    /\ UNCHANGED <<slots, rtc, cs, guards, last>>

\* ------------------------------------------------- the fallback, step by step
FbPcs == {"fb_lset", "fb_copy", "fb_bitlen", "fb_sq_mul", "fb_sq_mod", "fb_mul", "fb_mod"}

\* The pointers the statement at r.pc hands to an MPI primitive.
Derefs(r) ==
    CASE r.pc = "fb_lset"   -> {r.args.z}
      [] r.pc = "fb_copy"   -> {r.args.x}
      [] r.pc = "fb_bitlen" -> {r.args.y}
      [] r.pc = "fb_sq_mul" -> {r.args.z}
      [] r.pc = "fb_sq_mod" -> {r.args.z, r.args.m, r.args.y}
      [] r.pc = "fb_mul"    -> {r.args.z}
      [] r.pc = "fb_mod"    -> {r.args.z, r.args.m}
      [] OTHER              -> {}

\* The frame of c about to run the statement at pc (history: whether a
\* primitive is handed a null pointer).
At(c, pc) == ctx[c].pc = pc
Frame(c) == [ctx[c] EXCEPT !.derefNull = @ \/ NULL \in Derefs(ctx[c])]
Local == UNCHANGED <<slots, rtc, cs, guards, last>>

do_lset(c)   == At(c, "fb_lset") /\ Local /\ \E st \in MpiStatus : Set(c, fb_lset(Frame(c), st))
do_copy(c)   == At(c, "fb_copy") /\ Local /\ \E st \in MpiStatus : Set(c, fb_copy(Frame(c), st))
do_bitlen(c) == At(c, "fb_bitlen") /\ Local /\ Set(c, fb_bitlen(Frame(c)))
do_sq_mul(c) == At(c, "fb_sq_mul") /\ Local /\ \E st \in MpiStatus : Set(c, fb_sq_mul(Frame(c), st))
do_sq_mod(c) ==
    /\ At(c, "fb_sq_mod") /\ Local
    /\ \E st \in ModStatus(Val(ctx[c], ctx[c].args.m)) : Set(c, fb_sq_mod(Frame(c), st))
do_mul(c)    == At(c, "fb_mul") /\ Local /\ \E st \in MpiStatus : Set(c, fb_mul(Frame(c), st))
do_mod(c) ==
    /\ At(c, "fb_mod") /\ Local
    /\ \E st \in ModStatus(Val(ctx[c], ctx[c].args.m)) : Set(c, fb_mod(Frame(c), st))

\* A primitive is handed a null pointer (the trampoline made a reference of
\* it unchecked).  The access is undefined: it traps and the context stops
\* here, or it reads and writes whatever lies at the null address and the
\* statement runs as above.
null_deref(c) ==
    /\ ctx[c].pc \in FbPcs /\ NULL \in Derefs(ctx[c])
    /\ Local
    /\ Set(c, [Frame(c) EXCEPT !.pc = "fault"])

\* ---------------------------------------------------------- specifications
Shape(z, x, y, m, rr) == [NoArgs EXCEPT !.z = z, !.x = x, !.y = y, !.m = m, !.prec_rr = rr]
PlainShape == Shape("Z", "X", "Y", "M", "RR")
ExpShapes ==
    {Shape(z, "X", "Y", "M", rr) : z \in {"Z", "X", "Y", "M"}, rr \in {NULL, "RR"}}
    \cup {Shape(NULL, "X", "Y", "M", "RR"), Shape("Z", NULL, "Y", "M", "RR"),
          Shape("Z", "X", NULL, "M", "RR"), Shape("Z", "X", "Y", NULL, "RR")}

\* End-to-end scenario 1 of the specification: x = 5, y = 117, m = 19.
Scenario1 == <<5, 117, 19>>
ExpInputs == ((0 .. MaxX) \X (0 .. MaxY) \X (0 .. MaxM)) \cup {Scenario1}
SmallInputs == {<<2, 1, 3>>}

Fallback(c) ==
    \/ do_lset(c) \/ do_copy(c) \/ do_bitlen(c) \/ do_sq_mul(c)
    \/ do_sq_mod(c) \/ do_mul(c) \/ do_mod(c)

\* One context calls the registration function and the trampoline of the
\* exponentiation primitive, one call after the other.
NextExp ==
    \E c \in {"main"} :
        \/ \E v \in SlotArgs("EXP_MOD") : hook_exp_mod(c, v)
        \/ CellSet2(c)
        \/ /\ ctx[c].pc = "idle"
           /\ \E inp \in ExpInputs, a \in ExpShapes : mbedtls_mpi_exp_mod(c, inp, a)
        \/ CellGet2(c)
        \/ exp_mod_cap(c)
        \/ Fallback(c)
        \/ null_deref(c)
        \/ return(c)

SpecExp == Init /\ [][NextExp]_vars

\* Every context calls every registration function and every trampoline.
Next ==
    \E c \in Contexts :
        \/ \E v \in SlotArgs("EXP_MOD") : hook_exp_mod(c, v)
        \/ \E v \in SlotArgs("TIME") : hook_time(c, v)
        \/ \E v \in SlotArgs("MS_TIME") : hook_ms_time(c, v)
        \/ \E v \in SlotArgs("GMTIME_R") : hook_gmtime_r(c, v)
        \/ CellSet2(c)
        \/ \E inp \in SmallInputs : mbedtls_mpi_exp_mod(c, inp, PlainShape)
        \/ \E timer \in {NULL, "timer"} : time(c, timer)
        \/ mbedtls_ms_time(c)
        \/ \E tt \in {NULL, "tt"}, tm_buf \in {NULL, "tm_buf"}, t \in Timestamps :
               mbedtls_platform_gmtime_r(c, tt, tm_buf, t)
        \/ CellGet2(c)
        \/ exp_mod_cap(c)
        \/ time_cap(c)
        \/ ms_time_cap(c)
        \/ gmtime_r_cap(c)
        \/ Fallback(c)
        \/ return(c)

Spec == Init /\ [][Next]_vars

\* One context makes every call of the program, one call after the other.
OtherArgs == {None, Some("capT")}
NextSeq ==
    \E c \in {"main"} :
        \/ \E v \in SlotArgs("EXP_MOD") : hook_exp_mod(c, v)
        \/ \E v \in OtherArgs : hook_time(c, v)
        \/ \E v \in OtherArgs : hook_ms_time(c, v)
        \/ \E v \in OtherArgs : hook_gmtime_r(c, v)
        \/ register(c)
        \/ drop(c)
        \/ drop_rtc(c)
        \/ HookNext(c)
        \/ CellSet2(c)
        \/ \E inp \in SmallInputs : mbedtls_mpi_exp_mod(c, inp, PlainShape)
        \/ \E timer \in {NULL, "timer"} : time(c, timer)
        \/ mbedtls_ms_time(c)
        \/ \E tt \in {NULL, "tt"}, tm_buf \in {NULL, "tm_buf"}, t \in Timestamps :
               mbedtls_platform_gmtime_r(c, tt, tm_buf, t)
        \/ CellGet2(c)
        \/ exp_mod_cap(c)
        \/ time_cap(c)
        \/ ms_time_cap(c)
        \/ gmtime_r_cap(c)
        \/ Fallback(c)
        \/ return(c)

SpecSeq == Init /\ [][NextSeq]_vars

\* Every context registers the ESP time backend, drops guards and reads the
\* clock, in any interleaving.
NextGuard ==
    \E c \in Contexts :
        \/ register(c)
        \/ drop(c)
        \/ drop_rtc(c)
        \/ HookNext(c)
        \/ CellSet2(c)
        \/ time(c, NULL)
        \/ mbedtls_ms_time(c)
        \/ CellGet2(c)
        \/ time_cap(c)
        \/ ms_time_cap(c)
        \/ return(c)

SpecGuard == Init /\ [][NextGuard]_vars

\* The timestamps of the calendar check: every day within MaxCalDay days of
\* the epoch (1968-02-29 and 1972-02-29 among them), the first days of years
\* 1 and 2000, century and leap days, and the ends of the accepted range,
\* each at three seconds of the day.
CalDays ==
    (-MaxCalDay .. MaxCalDay)
    \cup {MinDay - 1, MinDay, MinDay + 1, -719162, -141427, 10956, 10957, 11016, 11017,
          19782, 47540, 47541, MaxDay - 1, MaxDay, MaxDay + 1}
CalSecs == {0, 3661, 86399}
CalTimestamps == {Stamp(d, s) : d \in CalDays, s \in CalSecs}

\* One context registers the ESP time backend and converts timestamps.
NextCal ==
    \E c \in {"main"} :
        \/ register(c)
        \/ HookNext(c)
        \/ CellSet2(c)
        \/ /\ ctx[c].pc = "idle"
           /\ \E t \in CalTimestamps : mbedtls_platform_gmtime_r(c, "tt", "tm_buf", t)
        \/ CellGet2(c)
        \/ gmtime_r_cap(c)
        \/ return(c)

SpecCal == Init /\ [][NextCal]_vars

\* ================================================================== claims
\* A call of the exponentiation trampoline by context c has returned.
ExpDone(c) == ctx[c].op = "exp_mod" /\ ctx[c].pc = "done"
\* The pointers of the call are those of four distinct objects, none null.
Distinct(r) == r.args.z = "Z" /\ r.args.x = "X" /\ r.args.y = "Y" /\ r.args.m = "M"

\* x^y mod m by y successive multiplications, each reduced.
RECURSIVE ModPowRef(_, _, _)
ModPowRef(x, y, m) == IF y = 0 THEN 1 % m ELSE (x * ModPowRef(x, y - 1, m)) % m

\* C1: with no hook installed, a fallback call on distinct objects with
\* m > 1 in which every MPI primitive succeeds returns status 0 and leaves
\* z = x^y mod m (so 1 mod m for y = 0, 0 for x = 0 < y, and 1 for
\* x = 5, y = 117, m = 19).
C1_FallbackComputesModPow ==
    \A c \in Contexts :
        LET r == ctx[c] IN
        (ExpDone(c) /\ r.invFb = 1 /\ Distinct(r) /\ r.in[3] > 1 /\ r.failCode = 0)
        => /\ r.ret = 0 /\ r.res = Ok
           /\ r.mem["Z"] = ModPowRef(r.in[1], r.in[2], r.in[3])
           /\ (r.in[2] = 0 => r.mem["Z"] = 1)
           /\ (r.in[1] = 0 /\ r.in[2] > 0 => r.mem["Z"] = 0)
           /\ (r.in = Scenario1 => r.mem["Z"] = 1)

C1_Witness ==
    \E c \in Contexts :
        /\ ExpDone(c) /\ ctx[c].invFb = 1 /\ Distinct(ctx[c]) /\ ctx[c].failCode = 0
        /\ ctx[c].in = Scenario1 /\ ctx[c].mem["Z"] = 1 /\ ctx[c].ret = 0
        /\ ctx[c].nMul > ctx[c].iters

\* C2: every trampoline call invokes exactly one implementation: the
\* capability read from the slot when the value read is Some, and then its
\* result is what the trampoline returns (0 for Ok, the code for Err) and no
\* statement of the fallback runs; the fallback, and no capability, when the
\* value read is None.
C2_ExactlyOneImplementation ==
    \A c \in Contexts :
        LET r == ctx[c] IN
        /\ (r.op = "exp_mod" /\ r.pc = "cap_run") => IsSome(r.got) /\ r.invCap = 1 /\ r.invFb = 0
        /\ (r.op = "exp_mod" /\ r.pc \in FbPcs) => ~IsSome(r.got) /\ r.invCap = 0 /\ r.invFb = 1
        /\ ExpDone(c) =>
              /\ r.invCap + r.invFb = 1
              /\ (IsSome(r.got) =>
                    /\ r.invCap = 1
                    /\ r.ret = (IF r.capRes.ok THEN 0 ELSE r.capRes.code)
                    /\ r.nInit = 0 /\ r.nMul = 0 /\ r.nMod = 0 /\ r.mem["Z"] = 0)
              /\ (~IsSome(r.got) => r.invFb = 1 /\ r.capRes = Ok)

C2_Witness ==
    \E c \in Contexts :
        /\ ExpDone(c) /\ IsSome(ctx[c].got) /\ ctx[c].invCap = 1 /\ ctx[c].invFb = 0
        /\ ctx[c].ret = MBEDTLS_ERR_MPI_ALLOC_FAILED
        /\ slots["EXP_MOD"] = None

\* C3: when an MPI primitive inside the fallback returns a non-zero status,
\* no multiply or reduce runs after it, the fallback returns an error that
\* carries that status and the trampoline returns that status.
C3_ErrorPropagatedVerbatim ==
    \A c \in Contexts :
        LET r == ctx[c] IN
        /\ (r.op = "exp_mod" /\ r.failCode # 0) => r.pc = "done" /\ r.postFail = 0
        /\ (ExpDone(c) /\ r.invFb = 1 /\ r.failCode # 0)
           => r.ret = r.failCode /\ r.res = MbedtlsError_new(r.failCode) /\ r.ret # 0

C3_Witness ==
    \E c \in Contexts :
        /\ ExpDone(c) /\ ctx[c].invFb = 1 /\ ctx[c].iters = 2 /\ ctx[c].nMul = 3
        /\ ctx[c].failCode = MBEDTLS_ERR_MPI_ALLOC_FAILED
        /\ ctx[c].ret = MBEDTLS_ERR_MPI_ALLOC_FAILED /\ ~ctx[c].res.ok

\* C4 as stated: on every exit path of the fallback, the failure of the
\* initial set-to-one included, base is released exactly once.
C4_AsStated ==
    \A c \in Contexts :
        (ExpDone(c) /\ ctx[c].invFb = 1) => ctx[c].nFree = 1

\* C4 amended: base is initialised at most once; on every exit path after
\* its initialisation (success, failure of the copy, of a multiply or of a
\* reduce) it is released exactly once and is not live at the return; when
\* the initial set-to-one fails, base was never initialised and is not
\* released.
C4_BaseReleasedOnceIfInitialised ==
    \A c \in Contexts :
        LET r == ctx[c] IN
        /\ r.nFree <= r.nInit /\ r.nInit <= 1
        /\ (ExpDone(c) /\ r.invFb = 1) =>
              /\ r.nFree = r.nInit
              /\ r.baseState # "live"
              /\ ((r.nInit = 0) <=> (r.failCode # 0 /\ r.nMul = 0 /\ r.baseState = "uninit"))

C4_Witness ==
    \E c \in Contexts :
        /\ ExpDone(c) /\ ctx[c].invFb = 1 /\ ctx[c].failCode # 0
        /\ ctx[c].nMul = 3 /\ ctx[c].nFree = 1 /\ ctx[c].baseState = "freed"

\* C8 as stated: a trampoline handed a null required pointer returns a
\* failure at once, having read no slot and invoked neither a capability nor
\* the fallback.
NullRequired(r) ==
    \/ r.op = "exp_mod" /\ NULL \in {r.args.z, r.args.x, r.args.y, r.args.m}
    \/ r.op = "gmtime_r" /\ NULL \in {r.args.tt, r.args.tm_buf}
Failed(r) == IF r.op = "gmtime_r" THEN r.retp = NULL ELSE r.ret # 0

C8_NullRejected ==
    \A c \in Contexts :
        NullRequired(ctx[c]) =>
            /\ ctx[c].pc = "done" /\ Failed(ctx[c])
            /\ ctx[c].invCap = 0 /\ ctx[c].invFb = 0 /\ ~ctx[c].derefNull

\* No context is inside a write of slot k.
Quiet(k) == \A c \in Contexts : ~(ctx[c].pc = "hook_w2" /\ ctx[c].kind = k)

\* C5: a slot holds None or one capability reference, and whenever no write
\* of it is in progress its content is the argument of the last completed
\* hook_* call (None before any): an install over an occupied slot
\* overwrites, a removal of an empty slot leaves it empty.
C5_SlotHoldsLastArgument ==
    \A k \in Kinds :
        /\ Quiet(k) => slots[k] = last[k] /\ slots[k] \in SlotArgs(k)
        /\ \A c \in Contexts :
               (ctx[c].op = "hook" /\ ctx[c].pc = "done" /\ ctx[c].kind = k
                    /\ Quiet(k) /\ last[k] = ctx[c].val)
               => slots[k] = ctx[c].val

C5_Witness ==
    \E c \in Contexts, k \in Kinds :
        /\ ctx[c].op = "hook" /\ ctx[c].pc = "done" /\ ctx[c].kind = k
        /\ ctx[c].prev = Some("capA") /\ ctx[c].val = Some("capB")
        /\ Quiet(k) /\ slots[k] = Some("capB")

\* The drop of an EspTimeGuard by context c has completed.
DropDone(c) == ctx[c].op = "drop" /\ ctx[c].pc = "done"

\* C6: once the drop of an EspTimeGuard has completed, the seconds,
\* milliseconds and calendar slots are empty and the RTC reference is
\* cleared, whatever the slots held when the drop began.
C6_DropClearsEverything ==
    \A c \in Contexts :
        DropDone(c) => /\ \A k \in TimeKinds : slots[k] = None
                       /\ rtc = "none"

C6_Witness ==
    \E c \in Contexts :
        /\ DropDone(c) /\ ctx[c].prev = Some("capT")
        /\ \A k \in TimeKinds : slots[k] = None
        /\ rtc = "none" /\ guards = 1

\* The ESP time backend is installed in the three time slots.
Registered == \A k \in TimeKinds : slots[k] = Some("ESP_TIME")
\* No register call and no drop is under way.
NoneUnderWay == \A c \in Contexts : ctx[c].op \in {"register", "drop"} => ctx[c].pc = "done"

\* C7 as stated: between the register calls and the drops, one guard is
\* alive when the backend is registered in the slots and none when it is not.
C7_OneGuardPerRegistration ==
    NoneUnderWay => guards = (IF Registered THEN 1 ELSE 0)

\* Where C7 fails: a guard is alive and the hooks it was issued for are gone.
C7_GuardWithoutHooks == NoneUnderWay /\ guards = 1 /\ \A k \in TimeKinds : slots[k] = None

\* A trampoline call of context c holds the value it read from its slot.
HasRead(r) ==
    /\ r.op \in {"exp_mod", "time", "ms_time", "gmtime_r"}
    /\ r.pc \in {"cap_run", "done"} \cup FbPcs
    /\ r.kind # "none"

\* C9: what a trampoline has read from its slot is None or the complete
\* argument of an install; it is never made of the words of two values.
\* Outside the critical section no slot holds such a mix either.
C9_NoTornRead ==
    /\ \A c \in Contexts :
           HasRead(ctx[c]) => ctx[c].got \in SlotArgs(ctx[c].kind) /\ ~Torn(ctx[c].got)
    /\ cs = "none" => \A k \in Kinds : slots[k] \in SlotArgs(k)

C9_Witness ==
    \E c \in Contexts, d \in Contexts :
        /\ ctx[c].op = "exp_mod" /\ ctx[c].pc = "cap_run" /\ ctx[c].got = Some("capA")
        /\ ctx[d].pc = "hook_w2" /\ ctx[d].kind = "EXP_MOD" /\ ctx[d].val = Some("capB")
        /\ slots["EXP_MOD"] = [data |-> "capB", vtable |-> "capA"]

\* C10: while a capability or the fallback runs for a trampoline, that
\* trampoline is outside the critical section.
C10_NoLockAcrossInvocation ==
    \A c \in Contexts :
        ctx[c].pc \in ({"cap_run"} \cup FbPcs) => cs # c

C10_Witness ==
    \E c \in Contexts, d \in Contexts :
        /\ ctx[c].pc = "cap_run" /\ ctx[c].op = "ms_time"
        /\ cs = d /\ d # c /\ ctx[d].pc = "hook_w2" /\ ctx[d].kind = "MS_TIME"

\* The occupant of slot k has been removed: the last completed write of the
\* slot stored None (a hook_* call with None, or the one made by the drop of
\* a guard) and no write of it is under way.
Removed(k) == Quiet(k) /\ slots[k] = None /\ last[k] = None

\* C11 as stated: once a removal has completed, no trampoline runs the
\* capability it removed, not even a trampoline that read the slot before the
\* removal began.  (A context at "cap_run" holds the reference it read and
\* the capability's code runs in its next step.)
C11_NoUseAfterRelease ==
    \A c \in Contexts :
        (ctx[c].pc = "cap_run" /\ IsSome(ctx[c].got)) => ~Removed(ctx[c].kind)

\* Where C11 fails: the drop of a guard has completed in one context while
\* another is about to run the backend it read from the seconds slot.
C11_RunsAfterDrop ==
    \E c \in Contexts, d \in Contexts :
        /\ DropDone(d) /\ rtc = "none"
        /\ ctx[c].pc = "cap_run" /\ ctx[c].op = "time" /\ ctx[c].got = Some("ESP_TIME")

\* A call of the seconds or of the milliseconds trampoline by c has returned.
ClockDone(c) == ctx[c].op \in {"time", "ms_time"} /\ ctx[c].pc = "done"

\* C12: a call of time or mbedtls_ms_time that found its slot empty invokes
\* nothing and returns 0; one that found a capability invokes it once and
\* returns the value the capability returned; time also stores the value it
\* returns through a non-null timer.
C12_ClockValueOrZero ==
    \A c \in Contexts :
        LET r == ctx[c] IN
        ClockDone(c) =>
            /\ (~IsSome(r.got) => r.invCap = 0 /\ r.ret = 0 /\ r.now = 0)
            /\ (IsSome(r.got) => r.invCap = 1 /\ r.ret = r.now)
            /\ r.ret \in Clock
            /\ (r.op = "time" => r.timerv = (IF r.args.timer # NULL THEN r.ret ELSE 0))

C12_Witness ==
    \E c \in Contexts :
        /\ ClockDone(c) /\ ctx[c].op = "time" /\ ctx[c].got = Some("capT")
        /\ ctx[c].ret = 1 /\ ctx[c].args.timer # NULL /\ ctx[c].timerv = 1

\* A call of the calendar trampoline by c with non-null arguments has returned.
GmtimeDone(c) ==
    /\ ctx[c].op = "gmtime_r" /\ ctx[c].pc = "done"
    /\ ctx[c].args.tt # NULL /\ ctx[c].args.tm_buf # NULL

\* C13: mbedtls_platform_gmtime_r with non-null arguments returns tm_buf
\* exactly when it found a capability and the capability returned Ok, and
\* null otherwise; when it found the slot empty nothing is invoked and the
\* output record is left as it was; a capability that ran and succeeded has
\* filled the record.
C13_GmtimeReturnsBufOrNull ==
    \A c \in Contexts :
        LET r == ctx[c] IN
        GmtimeDone(c) =>
            /\ r.retp \in {r.args.tm_buf, NULL}
            /\ ((r.retp = r.args.tm_buf) <=> (IsSome(r.got) /\ r.res.ok))
            /\ (~IsSome(r.got) => r.retp = NULL /\ r.invCap = 0 /\ r.tm = "unset")
            /\ (IsSome(r.got) => r.invCap = 1)
            /\ (r.retp = r.args.tm_buf => r.tm = "filled")

C13_Witness ==
    \E c \in Contexts :
        /\ GmtimeDone(c) /\ ctx[c].got = Some("ESP_TIME") /\ ctx[c].invCap = 1
        /\ ~ctx[c].res.ok /\ ctx[c].retp = NULL /\ ctx[c].tm = "unset"

\* A fallback call on four distinct objects in which every primitive
\* succeeded has returned to context c.
FbSucceeded(c) ==
    ExpDone(c) /\ ctx[c].invFb = 1 /\ Distinct(ctx[c]) /\ ctx[c].failCode = 0

\* C14 as stated: with an exponent of bit-length zero and a non-zero
\* modulus the fallback runs no iteration, no multiply and no reduce, and
\* returns success with z = 1 mod m.
C14_ZeroExponent ==
    \A c \in Contexts :
        LET r == ctx[c] IN
        (FbSucceeded(c) /\ mbedtls_mpi_bitlen(r.in[2]) = 0 /\ r.in[3] # 0)
        => /\ r.iters = 0 /\ r.nMul = 0 /\ r.nMod = 0
           /\ r.ret = 0 /\ r.res = Ok
           /\ r.mem["Z"] = 1 % r.in[3]

\* Where C14 fails: y = 0 and m = 1 leave z = 1, which is not 1 mod 1.
C14_OneModuloOne ==
    \E c \in Contexts :
        /\ FbSucceeded(c) /\ ctx[c].in[2] = 0 /\ ctx[c].in[3] = 1
        /\ ctx[c].iters = 0 /\ ctx[c].nMod = 0 /\ ctx[c].ret = 0 /\ ctx[c].mem["Z"] = 1

\* Reference: the day number, counted from 1970-01-01, of the calendar date
\* y-m-d.
DaysFromCivil(y, m, d) ==
    LET yy  == IF m <= 2 THEN y - 1 ELSE y
        era == yy \div 400
        yoe == yy - era * 400
        doy == (153 * (IF m > 2 THEN m - 3 ELSE m + 9) + 2) \div 5 + d - 1
    IN  era * 146097 + yoe * 365 + yoe \div 4 - yoe \div 100 + doy - 719468

\* The timestamps of years -9999 to 9999, which the conversion can represent.
Representable(tt) ==
    tt.days >= DaysFromCivil(-9999, 1, 1) /\ tt.days <= DaysFromCivil(9999, 12, 31)

\* A calendar call of c that was dispatched to the ESP backend has returned.
EspGmtimeDone(c) == GmtimeDone(c) /\ IsEsp(ctx[c].got) /\ IsSome(ctx[c].got)

\* C15: the backend converts timestamp 0 to 1970-01-01T00:00:00, a Thursday,
\* day 0 of the year; for every representable timestamp it returns Ok with
\* the month in 0..11, the weekday in 0..6 counted from Sunday, the day of
\* the year counted from 0 and year, month and day naming the timestamp's
\* day; for any other timestamp it returns the failure and the record keeps
\* the caller's content.
C15_CalendarFields ==
    \A c \in Contexts :
        LET r == ctx[c]
            t == r.tmv
        IN  EspGmtimeDone(c) =>
            /\ (r.tt = Stamp(0, 0) =>
                   /\ r.res.ok
                   /\ t = [tm_sec |-> 0, tm_min |-> 0, tm_hour |-> 0, tm_mday |-> 1,
                           tm_mon |-> 0, tm_year |-> 70, tm_wday |-> 4, tm_yday |-> 0,
                           tm_isdst |-> -1])
            /\ (Representable(r.tt) =>
                   /\ r.res.ok /\ r.retp = r.args.tm_buf
                   /\ t.tm_mon \in 0 .. 11 /\ t.tm_wday \in 0 .. 6
                   /\ t.tm_wday = (r.tt.days - 3) % 7
                   /\ DaysFromCivil(t.tm_year + 1900, t.tm_mon + 1, t.tm_mday) = r.tt.days
                   /\ t.tm_yday = r.tt.days - DaysFromCivil(t.tm_year + 1900, 1, 1)
                   /\ t.tm_mday >= 1
                   /\ t.tm_hour * 3600 + t.tm_min * 60 + t.tm_sec = r.tt.secs
                   /\ t.tm_min \in 0 .. 59 /\ t.tm_sec \in 0 .. 59)
            /\ (~Representable(r.tt) =>
                   ~r.res.ok /\ r.retp = NULL /\ t = CallerTm /\ r.tm = "unset")

C15_Witness ==
    \E c \in Contexts :
        /\ EspGmtimeDone(c) /\ ctx[c].tt = Stamp(0, 0) /\ ctx[c].res.ok
        /\ ctx[c].tmv.tm_year = 70 /\ ctx[c].tmv.tm_wday = 4 /\ ctx[c].tmv.tm_yday = 0

\* The number of one bits of v.
RECURSIVE PopCount(_)
PopCount(v) == IF v = 0 THEN 0 ELSE (v % 2) + PopCount(v \div 2)

\* The fallback runs, or has returned with success, in context c on four
\* distinct objects with a non-zero modulus, no primitive having failed.
FbRunning(c) ==
    /\ ctx[c].op = "exp_mod" /\ ctx[c].invFb = 1 /\ Distinct(ctx[c])
    /\ ctx[c].failCode = 0 /\ ctx[c].in[3] > 0
    /\ ctx[c].pc \in {"fb_sq_mul", "fb_sq_mod", "fb_mul", "fb_mod", "done"}

\* C16: with n the bit-length of y, the loop takes the bits n-1 down to 0;
\* when the iteration for bit i has ended z = x^(y div 2^i) mod m and
\* 0 <= z < m; every multiply is followed by a reduce, the second multiply of
\* an iteration is made only for a one bit, and a successful call has run n
\* iterations.
C16_LoopInvariant ==
    \A c \in Contexts :
        LET r == ctx[c]
            x == r.in[1]
            y == r.in[2]
            m == r.in[3]
            z == r.mem["Z"]
            n == mbedtls_mpi_bitlen(y)
        IN  FbRunning(c) =>
            /\ r.bits = n
            /\ (r.pc # "done" => r.i = n - r.iters /\ r.i \in 0 .. n - 1)
            /\ (r.pc = "fb_sq_mul" /\ r.iters > 1 =>
                   /\ z = ModPowRef(x, y \div Pow2(r.i + 1), m)
                   /\ z >= 0 /\ z < m
                   /\ r.nMod = r.nMul
                   /\ r.nMul = (r.iters - 1) + PopCount(y \div Pow2(r.i + 1)))
            /\ (r.pc \in {"fb_sq_mod", "fb_mod"} => r.nMul = r.nMod + 1)
            /\ (r.pc = "fb_mul" => mbedtls_mpi_get_bit(y, r.i) = 1 /\ r.nMul = r.nMod)
            /\ (r.pc = "done" =>
                   /\ r.iters = n /\ r.nMod = r.nMul /\ r.nMul = n + PopCount(y)
                   /\ (n > 0 => z = ModPowRef(x, y, m) /\ z >= 0 /\ z < m))

C16_Witness ==
    \E c \in Contexts :
        /\ FbRunning(c) /\ ctx[c].pc = "fb_sq_mul" /\ ctx[c].in = Scenario1
        /\ ctx[c].bits = 7 /\ ctx[c].i = 3 /\ ctx[c].iters = 4 /\ ctx[c].mem["Z"] = 16

\* Context c is, in this step, inside the critical section of a hook_* call
\* on slot k: it stores the first or the second word of its argument.
WritesSlot(c, k) ==
    \/ ctx'[c].pc = "hook_w2" /\ ctx'[c].kind = k /\ cs' = c
    \/ ctx[c].pc = "hook_w2" /\ ctx[c].kind = k /\ cs = c

\* C17: a slot changes only in a step of a hook_* call on that slot, made
\* inside its critical section: a hook_* call on one slot leaves the other
\* three as they are, and no step of a trampoline, of a capability or of the
\* fallback changes any slot.
C17_OnlyHooksWriteTheirSlot ==
    [][\A k \in Kinds : slots'[k] # slots[k] => \E c \in Contexts : WritesSlot(c, k)]_vars

C17_Witness ==
    \E c \in Contexts, d \in Contexts :
        /\ ctx[c].op = "hook" /\ ctx[c].pc = "done" /\ ctx[c].kind = "MS_TIME"
        /\ ctx[c].val = None /\ ctx[c].prev = Some("capT")
        /\ ctx[d].op = "exp_mod" /\ ctx[d].pc \in FbPcs /\ ctx[d].nMul > 0
        /\ slots = [[k \in Kinds |-> None] EXCEPT !["TIME"] = Some("capT"), !["GMTIME_R"] = Some("ESP_TIME")]

\* The fallback was entered by the call of context c, on four distinct
\* objects.
FbEntered(c) == ctx[c].op = "exp_mod" /\ ctx[c].invFb = 1 /\ Distinct(ctx[c])

\* C18: from its entry to its return, with success or with an error, the
\* fallback called with z distinct from x, y and m leaves x, y, m and the
\* object behind prec_rr as the caller passed them and hands prec_rr to no
\* primitive; base exists only between its initialisation and its release.
C18_OperandsUnchanged ==
    \A c \in Contexts :
        LET r == ctx[c] IN
        FbEntered(c) =>
            /\ r.mem["X"] = r.in[1] /\ r.mem["Y"] = r.in[2] /\ r.mem["M"] = r.in[3]
            /\ r.mem["RR"] = 0
            /\ "RR" \notin Derefs(r)
            /\ (r.pc = "done" => r.baseState # "live")

C18_Witness ==
    \E c \in Contexts :
        /\ FbEntered(c) /\ ctx[c].pc = "done" /\ ctx[c].args.prec_rr = "RR"
        /\ ctx[c].failCode # 0 /\ ctx[c].nMul = 3 /\ ctx[c].nMod = 2
        /\ ctx[c].in = <<3, 5, 4>> /\ ctx[c].mem["X"] = 3 /\ ctx[c].mem["Z"] # 1

\* A fallback call with no null pointer among z, x, y, m, in which every
\* primitive succeeded, has returned to context c.
FbSucceededAnyShape(c) ==
    /\ ExpDone(c) /\ ctx[c].invFb = 1 /\ ctx[c].failCode = 0
    /\ ~NullRequired(ctx[c])

\* C19 as stated: whatever object z is (a fifth one, or the same as x, y or
\* m), a successful fallback call with m > 1 leaves in z the power of the
\* values x, y and m had when the call began.
C19_ResultOfInitialValues ==
    \A c \in Contexts :
        LET r == ctx[c] IN
        (FbSucceededAnyShape(c) /\ r.in[3] > 1)
        => r.mem[r.args.z] = ModPowRef(r.in[1], r.in[2], r.in[3])

\* Where C19 fails: called with z = x on x = 2, y = 1, m = 3 the fallback
\* returns success with z = 1 instead of 2.
C19_BaseLost ==
    \E c \in Contexts :
        /\ FbSucceededAnyShape(c) /\ ctx[c].args.z = "X" /\ ctx[c].in = <<2, 1, 3>>
        /\ ctx[c].ret = 0 /\ ctx[c].mem["X"] = 1

\* C20 as stated: whenever a time slot holds the ESP backend the RTC
\* reference is present, and no trampoline that dispatched to the backend got
\* its no-RTC default.
C20_RtcPresentWhileInstalled ==
    /\ \A k \in TimeKinds : slots[k] = Some("ESP_TIME") => rtc = "rtc"
    /\ \A c \in Contexts : ~ctx[c].noRtc

\* Where C20 fails: no register call and no drop is under way, a guard is
\* alive, the three slots hold the backend and its RTC reference is gone; a
\* call of time then returns the default.
C20_InstalledWithoutRtc ==
    \E c \in Contexts :
        /\ guards = 1 /\ Registered /\ rtc = "none"
        /\ \A d \in Contexts : d # c => ctx[d].pc = "idle"
        /\ ctx[c].op = "time" /\ ctx[c].pc = "done" /\ ctx[c].noRtc /\ ctx[c].ret = 0
====
